---- MODULE Spec2Model ----
(***************************************************************************)
(* Model of src/server.js: the STBG project prioritisation API.            *)
(*                                                                         *)
(* The POST /analyze handler receives up to twelve uploaded GeoJSON files, *)
(* rejects the request when a required one is absent, and otherwise runs   *)
(* runAnalysis: load, clean, default the project properties, run twelve    *)
(* criterion analyzers, merge their results by project_id, total, compute  *)
(* the benefit-cost ratio, sort and rank.                                  *)
(*                                                                         *)
(* Numbers are exact rationals <<n, d>> (JavaScript doubles without the    *)
(* rounding); d = 0 encodes the non-finite doubles: <<0,0>> is NaN,        *)
(* <<1,0>> is Infinity and <<-1,0>> is -Infinity.                          *)
(*                                                                         *)
(* Geometry is planar and one-dimensional: a position is a mile marker on  *)
(* the x axis, so that turf's buffer, booleanIntersects, booleanWithin,    *)
(* centroid and length become interval arithmetic.                         *)
(***************************************************************************)
EXTENDS Integers, Sequences, FiniteSets, TLC

VARIABLES
    pc,         \* position of the /analyze request: "idle", "handler", "awaiting", "done"
    reqFiles,   \* req.files as multer leaves it: NoFiles or field -> file content
    started,    \* whether runAnalysis was entered for the current request
    projects,   \* files.projects.features after the defaulting step
    cleaned,    \* the collections cleanGeoJSON returned: popemp, lehd, actv
    analysisResults, \* what each of the twelve analyzers returned or that it threw
    resultsMap, \* the Map of runAnalysis as a sequence of [key, val] in insertion order
    outcome,    \* what runAnalysis returned or threw, pending the await
    response,   \* the last response sent: status and body
    rng,        \* hidden state of Math.random
    now,        \* Date.now(), in milliseconds
    uploads,    \* the ./uploads directory: path -> file content
    inv         \* the concurrent /analyze invocations, each with its own position

vars ==
    <<pc, reqFiles, started, projects, cleaned, analysisResults, resultsMap, outcome,
      response, rng, now, uploads, inv>>

----------------------------------------------------------------------------
(* Bounds of the model *)

\* longest project collection uploaded
MaxProjects == 3

\* most upload fields left out of one request
MaxMissing == 1

----------------------------------------------------------------------------
(* Numbers *)

Abs(x) == IF x < 0 THEN -x ELSE x

Sgn(x) == IF x < 0 THEN -1 ELSE IF x > 0 THEN 1 ELSE 0

RECURSIVE Gcd(_, _)
Gcd(a, b) == IF b = 0 THEN a ELSE Gcd(b, a % b)

\* the rational n/d in lowest terms, d > 0; a zero denominator gives NaN or +-Infinity
Norm(n, d) ==
    IF d = 0 THEN <<Sgn(n), 0>>
    ELSE LET g == Gcd(Abs(n), Abs(d))
         IN  <<Sgn(d) * (n \div g), Abs(d) \div g>>

R(i) == <<i, 1>>
NaN == <<0, 0>>
Zero == <<0, 1>>

IsNaN(a) == a[2] = 0 /\ a[1] = 0
IsFinite(a) == a[2] # 0

RAdd(a, b) ==
    IF a[2] = 0 /\ b[2] = 0 THEN (IF a = b THEN a ELSE NaN)
    ELSE IF a[2] = 0 THEN a
    ELSE IF b[2] = 0 THEN b
    ELSE LET g == Gcd(a[2], b[2])
         IN  Norm(a[1] * (b[2] \div g) + b[1] * (a[2] \div g), a[2] * (b[2] \div g))

RNeg(a) == <<-a[1], a[2]>>

RSub(a, b) == RAdd(a, RNeg(b))

\* cross-cancelled so that the products stay small
RMul(a, b) ==
    IF a[2] = 0 \/ b[2] = 0 THEN <<Sgn(a[1]) * Sgn(b[1]), 0>>
    ELSE LET g1 == Gcd(Abs(a[1]), b[2])
             g2 == Gcd(Abs(b[1]), a[2])
         IN  Norm((a[1] \div g1) * (b[1] \div g2), (a[2] \div g2) * (b[2] \div g1))

\* JavaScript division: x/0 is +-Infinity, 0/0 is NaN, x/Infinity is 0
RDiv(a, b) ==
    IF b[2] = 0 THEN (IF b[1] = 0 \/ a[2] = 0 THEN NaN ELSE Zero)
    ELSE IF b[1] = 0 THEN <<Sgn(a[1]), 0>>
    ELSE RMul(a, <<Sgn(b[1]) * b[2], Abs(b[1])>>)

\* n1/d1 < n2/d2 for positive denominators, by the continued fractions, so
\* that no product is formed
RECURSIVE FracLt(_, _, _, _)
FracLt(n1, d1, n2, d2) ==
    IF n1 \div d1 # n2 \div d2 THEN n1 \div d1 < n2 \div d2
    ELSE IF n2 % d2 = 0 THEN FALSE
    ELSE IF n1 % d1 = 0 THEN TRUE
    ELSE FracLt(d2, n2 % d2, d1, n1 % d1)

\* a < b on doubles: false whenever NaN is involved
RLt(a, b) ==
    IF IsNaN(a) \/ IsNaN(b) THEN FALSE
    ELSE IF a[2] = 0 \/ b[2] = 0
         THEN (IF a[2] = 0 /\ b[2] = 0 THEN a[1] < b[1]
               ELSE IF a[2] = 0 THEN a[1] < 0
               ELSE b[1] > 0)
    ELSE FracLt(a[1], a[2], b[1], b[2])

RGt(a, b) == RLt(b, a)

RLe(a, b) == ~IsNaN(a) /\ ~IsNaN(b) /\ ~RLt(b, a)

\* the sequence f as a tuple: every element is evaluated once, here
AsSeq(f) == SubSeq(f, 1, Len(f))

RECURSIVE RSum(_)
RSum(s) == IF s = <<>> THEN Zero ELSE RAdd(RSum(SubSeq(s, 1, Len(s) - 1)), s[Len(s)])

\* Math.max(first, ...rest): NaN if any argument is NaN
RECURSIVE MathMax(_, _)
MathMax(first, rest) ==
    IF rest = <<>> THEN first
    ELSE LET m == MathMax(first, SubSeq(rest, 1, Len(rest) - 1))
             x == rest[Len(rest)]
         IN  IF IsNaN(m) \/ IsNaN(x) THEN NaN
             ELSE IF RLt(m, x) THEN x ELSE m

----------------------------------------------------------------------------
(* JavaScript values: property values and coordinate arrays as JSON.parse  *)
(* delivers them.  A string is a sequence of one-character strings.        *)

Undefined == [t |-> "undefined"]
Null == [t |-> "null"]
Num(r) == [n |-> r, t |-> "number"]
Str(cs) == [s |-> cs, t |-> "string"]
Arr(xs) == [a |-> xs, t |-> "array"]

\* ToBoolean, as the || operator applies it
Truthy(v) ==
    CASE v.t = "undefined" -> FALSE
      [] v.t = "null" -> FALSE
      [] v.t = "number" -> ~IsNaN(v.n) /\ v.n # Zero
      [] v.t = "string" -> v.s # <<>>
      [] OTHER -> TRUE

\* v || d
OrElse(v, d) == IF Truthy(v) THEN v ELSE d

DigitChars == <<"0", "1", "2", "3", "4", "5", "6", "7", "8", "9">>

IsDigit(c) == \E i \in 1..10 : DigitChars[i] = c

DigitVal(c) == (CHOOSE i \in 1..10 : DigitChars[i] = c) - 1

\* the number of digits of cs from position i on
RECURSIVE DigitRun(_, _)
DigitRun(cs, i) ==
    IF i <= Len(cs) /\ IsDigit(cs[i]) THEN 1 + DigitRun(cs, i + 1) ELSE 0

\* the value of the k digits of cs that start at position i
RECURSIVE DigitsValue(_, _, _)
DigitsValue(cs, i, k) ==
    IF k = 0 THEN 0 ELSE 10 * DigitsValue(cs, i, k - 1) + DigitVal(cs[i + k - 1])

RECURSIVE Pow10(_)
Pow10(k) == IF k = 0 THEN 1 ELSE 10 * Pow10(k - 1)

RECURSIVE SkipSpaces(_, _)
SkipSpaces(cs, i) == IF i <= Len(cs) /\ cs[i] = " " THEN SkipSpaces(cs, i + 1) ELSE i

\* parseFloat of a string: leading blanks, a sign, digits, a fraction; the
\* longest such prefix is the value and anything after it is ignored; no
\* digit at all is NaN.  (Exponents and the word Infinity are not in the
\* strings of this model.)
ParseDigits(cs, sign, i1, nInt, nFrac) ==
    IF nInt + nFrac = 0 THEN NaN
    ELSE Norm(sign * (DigitsValue(cs, i1, nInt) * Pow10(nFrac)
                      + DigitsValue(cs, i1 + nInt + 1, nFrac)),
              Pow10(nFrac))

\* the fraction, if a point follows the nInt integer digits
ParseFraction(cs, sign, i1, nInt) ==
    ParseDigits(cs, sign, i1, nInt,
                IF i1 + nInt <= Len(cs) /\ cs[i1 + nInt] = "."
                THEN DigitRun(cs, i1 + nInt + 1) ELSE 0)

\* the optional sign at position i0, then the digits
ParseSigned(cs, i0) ==
    IF i0 <= Len(cs) /\ cs[i0] \in {"-", "+"}
    THEN ParseFraction(cs, IF cs[i0] = "-" THEN -1 ELSE 1, i0 + 1, DigitRun(cs, i0 + 1))
    ELSE ParseFraction(cs, 1, i0, DigitRun(cs, i0))

ParseFloatChars(cs) == ParseSigned(cs, SkipSpaces(cs, 1))

\* parseFloat(v): a number is itself, a string is parsed, undefined and null are NaN
ParseFloat(v) ==
    CASE v.t = "number" -> v.n
      [] v.t = "string" -> ParseFloatChars(v.s)
      [] OTHER -> NaN

\* parseFloat(v) || d, on numbers
NumberOr(x, d) == IF IsNaN(x) \/ x = Zero THEN d ELSE x

ParseFloatOr(v, d) == NumberOr(ParseFloat(v), d)

LowerChars == <<"a", "b", "c", "d", "e", "f", "g", "h", "i", "j", "k", "l", "m",
                "n", "o", "p", "q", "r", "s", "t", "u", "v", "w", "x", "y", "z">>
UpperChars == <<"A", "B", "C", "D", "E", "F", "G", "H", "I", "J", "K", "L", "M",
                "N", "O", "P", "Q", "R", "S", "T", "U", "V", "W", "X", "Y", "Z">>

UpperChar(c) ==
    IF \E i \in 1..Len(LowerChars) : LowerChars[i] = c
    THEN UpperChars[CHOOSE i \in 1..Len(LowerChars) : LowerChars[i] = c]
    ELSE c

LowerChar(c) ==
    IF \E i \in 1..Len(UpperChars) : UpperChars[i] = c
    THEN LowerChars[CHOOSE i \in 1..Len(UpperChars) : UpperChars[i] = c]
    ELSE c

\* String.prototype.toUpperCase / toLowerCase, on the characters
ToUpperCase(cs) == [i \in 1..Len(cs) |-> UpperChar(cs[i])]
ToLowerCase(cs) == [i \in 1..Len(cs) |-> LowerChar(cs[i])]

\* whether v.toUpperCase() / v.toLowerCase() is a TypeError
NoStringMethods(v) == v.t # "string"

----------------------------------------------------------------------------
(* Features and the spatial join engine.  A feature is                     *)
(* [properties |-> Null or a record of JavaScript values,                  *)
(*  geometry |-> Null or [type, coordinates]].                             *)

\* the distance in miles of a buffer distance given in a unit
Miles(distance, units) ==
    IF units = "feet" THEN RDiv(distance, R(5280)) ELSE distance

IsFiniteNumber(c) == c.t = "number" /\ IsFinite(c.n)

\* the nesting of a geometry type's coordinates: a position is depth 1
Depth(type) ==
    CASE type = "Point" -> 1
      [] type = "LineString" -> 2
      [] type = "MultiPoint" -> 2
      [] type = "Polygon" -> 3
      [] type = "MultiPolygon" -> 4
      [] OTHER -> 0

RECURSIVE WellFormedAt(_, _)
WellFormedAt(v, depth) ==
    /\ v.t = "array"
    /\ Len(v.a) > 0
    /\ IF depth = 1
       THEN Len(v.a) >= 2 /\ \A i \in 1..Len(v.a) : IsFiniteNumber(v.a[i])
       ELSE \A i \in 1..Len(v.a) : WellFormedAt(v.a[i], depth - 1)

\* a geometry turf can work on: the coordinates nest as the type says and
\* every coordinate is a finite number
WellFormed(g) ==
    /\ g # Null
    /\ Depth(g.type) > 0
    /\ WellFormedAt(g.coordinates, Depth(g.type))

RECURSIVE Flatten(_)
\* the x coordinates of the positions of a well-formed coordinate array
Flatten(v) ==
    IF v.a[1].t = "number" THEN <<v.a[1].n>>
    ELSE IF Len(v.a) = 1 THEN Flatten(v.a[1])
    ELSE Flatten(Arr(SubSeq(v.a, 1, Len(v.a) - 1))) \o Flatten(v.a[Len(v.a)])

Positions(g) == Flatten(g.coordinates)

RECURSIVE MinOf(_)
MinOf(xs) ==
    IF Len(xs) = 1 THEN xs[1]
    ELSE LET m == MinOf(SubSeq(xs, 1, Len(xs) - 1))
         IN  IF RLt(xs[Len(xs)], m) THEN xs[Len(xs)] ELSE m

RECURSIVE MaxOf(_)
MaxOf(xs) ==
    IF Len(xs) = 1 THEN xs[1]
    ELSE LET m == MaxOf(SubSeq(xs, 1, Len(xs) - 1))
         IN  IF RLt(m, xs[Len(xs)]) THEN xs[Len(xs)] ELSE m

\* createBuffer: turf.buffer widens the extent of the geometry by the
\* distance; when turf.buffer throws (no geometry) the feature itself comes
\* back, and every predicate against it throws in turn
createBuffer(feature, distance, units) ==
    IF WellFormed(feature.geometry)
    THEN [ok |-> TRUE,
          lo |-> RSub(MinOf(Positions(feature.geometry)), Miles(distance, units)),
          hi |-> RAdd(MaxOf(Positions(feature.geometry)), Miles(distance, units))]
    ELSE [ok |-> FALSE]

\* the filter callback around turf.booleanIntersects: an error counts as false
Intersects(feat, buffer) ==
    /\ buffer.ok
    /\ WellFormed(feat.geometry)
    /\ RLe(MinOf(Positions(feat.geometry)), buffer.hi)
    /\ RLe(buffer.lo, MaxOf(Positions(feat.geometry)))

getFeaturesInBuffer(mainFeature, featuresToCheck, bufferDistance, units) ==
    LET buffer == createBuffer(mainFeature, bufferDistance, units)
        Hit(feat) == Intersects(feat, buffer)
    IN  SelectSeq(featuresToCheck, Hit)

\* turf.centroid: the mean of the vertices, a polygon's closing vertex left out
Centroid(g) ==
    LET all == Positions(g)
        xs == IF g.type \in {"Polygon", "MultiPolygon"} /\ Len(all) > 1
              THEN SubSeq(all, 1, Len(all) - 1) ELSE all
    IN  RDiv(RSum(xs), R(Len(xs)))

\* turf.length in miles: the sum of the segment lengths
RECURSIVE PathLength(_)
PathLength(xs) ==
    IF Len(xs) < 2 THEN Zero
    ELSE LET d == RSub(xs[Len(xs)], xs[Len(xs) - 1])
         IN  RAdd(PathLength(SubSeq(xs, 1, Len(xs) - 1)), IF RLt(d, Zero) THEN RNeg(d) ELSE d)

\* the coordinate test shared by cleanGeoJSON, debugTAZData and
\* getCentroidsWithin: coords.every(coord => Array.isArray(coord) &&
\* coord.every(c => typeof c === "number")), with !isNaN(c) when strict
EveryCoordNumeric(coords, strict) ==
    \A i \in 1..Len(coords.a) :
        /\ coords.a[i].t = "array"
        /\ \A j \in 1..Len(coords.a[i].a) :
              /\ coords.a[i].a[j].t = "number"
              /\ strict => ~IsNaN(coords.a[i].a[j].n)

\* the filter callback of getCentroidsWithin
CentroidWithin(feat, buffer) ==
    /\ feat.geometry # Null
    /\ Truthy(feat.geometry.coordinates)
    /\ feat.geometry.coordinates.t = "array"
    /\ Len(feat.geometry.coordinates.a) # 0
    /\ EveryCoordNumeric(feat.geometry.coordinates, TRUE)
    /\ WellFormed(feat.geometry)
    /\ buffer.ok
    /\ RLt(buffer.lo, Centroid(feat.geometry))
    /\ RLt(Centroid(feat.geometry), buffer.hi)

getCentroidsWithin(buffer, features) ==
    LET Hit(feat) == CentroidWithin(feat, buffer)
    IN  SelectSeq(features, Hit)

\* the filter callback of cleanGeoJSON; a TypeError inside it (coordinates
\* that are no array) is caught and counts as false
CleanKeeps(feat) ==
    /\ feat.geometry # Null
    /\ Truthy(feat.geometry.coordinates)
    /\ feat.geometry.coordinates.t = "array"
    /\ EveryCoordNumeric(feat.geometry.coordinates, FALSE)

cleanGeoJSON(features) == SelectSeq(features, CleanKeeps)

\* whether debugTAZData throws: its filter has no try around .every, and its
\* sample of an invalid feature reads features[0].geometry.coordinates
debugTAZDataThrows(features) ==
    LET Listed(f) == f.geometry # Null /\ Truthy(f.geometry.coordinates)
        Valid(f) == Listed(f) /\ f.geometry.coordinates.t = "array"
                    /\ EveryCoordNumeric(f.geometry.coordinates, FALSE)
    IN  \/ \E i \in 1..Len(features) :
              Listed(features[i]) /\ features[i].geometry.coordinates.t # "array"
        \/ /\ \E i \in 1..Len(features) : ~Valid(features[i])
           /\ features[1].geometry = Null

----------------------------------------------------------------------------
(* The criterion analyzers.  Each returns [threw, rows]: threw when the    *)
(* call as a whole throws, else one row [project_id, field, value] per     *)
(* project.  A throw inside the per-project try gives that project raw 0.  *)

S_highway == <<"h", "i", "g", "h", "w", "a", "y">>
S_intersection == <<"i", "n", "t", "e", "r", "s", "e", "c", "t", "i", "o", "n">>
S_unknown == <<"u", "n", "k", "n", "o", "w", "n">>
S_MC == <<"M", "C">>
S_MA == <<"M", "A">>
S_PA == <<"P", "A">>

\* the 0.0001 of Math.max(0.0001, ...)
Epsilon == <<1, 10000>>

\* proj.properties.project_id || i + 1, i counted from 0 in the code and from 1 here
ProjectId(features, i) == OrElse(features[i].properties.project_id, Num(R(i)))

Row(pid, field, value) ==
    [project_id |-> pid, field |-> field, value |-> value, raw |-> value]

Returned(rows) == [rows |-> rows, threw |-> FALSE]
Threw == [rows |-> <<>>, threw |-> TRUE]

\* maxRaw > 0 ? (raw / maxRaw) * cap : 0
Normalize(raw, maxRaw, cap) ==
    IF RGt(maxRaw, Zero) THEN RMul(RDiv(raw, maxRaw), cap) ELSE Zero

\* results.map(r => ({ project_id, [field]: normalize(r.raw) })); the raw
\* metric stays in the row for reference, the merge does not read it
Normalized(features, results, maxRaw, field, cap) ==
    AsSeq([i \in 1..Len(features) |->
              [Row(ProjectId(features, i), field, Normalize(results[i], maxRaw, cap))
                   EXCEPT !.raw = results[i]]])

\* a faulty variant of Rescale: the divisor is Math.max(...raws), with neither
\* the 0.0001 floor nor the max > 0 test
RescaleUnguarded(features, raws, field, cap) ==
    AsSeq([i \in 1..Len(features) |->
              [Row(ProjectId(features, i), field,
                   RMul(RDiv(AsSeq(raws)[i], MathMax(<<-1, 0>>, AsSeq(raws))), cap))
                   EXCEPT !.raw = AsSeq(raws)[i]]])

\* const max = Math.max(0.0001, ...raws); return raws.map(normalize)
Rescale(features, raws, field, cap) ==
    Normalized(features, AsSeq(raws), MathMax(Epsilon, AsSeq(raws)), field, cap)

\* (crash.properties || {})[name], parsed
CrashCount(crash, name) ==
    IF crash.properties = Null THEN Zero
    ELSE ParseFloatOr(crash.properties[name], Zero)

SumOfCrash(crashes, name) ==
    RSum([i \in 1..Len(crashes) |-> CrashCount(crashes[i], name)])

\* K * 2715000 + A * 2715000 + B * 300000 + C * 170000
EPDO(crashesInBuffer) ==
    RAdd(RAdd(RMul(SumOfCrash(crashesInBuffer, "K_PEOPLE"), R(2715000)),
              RMul(SumOfCrash(crashesInBuffer, "A_PEOPLE"), R(2715000))),
         RAdd(RMul(SumOfCrash(crashesInBuffer, "B_PEOPLE"), R(300000)),
              RMul(SumOfCrash(crashesInBuffer, "C_PEOPLE"), R(170000))))

\* EPDO * (1 - cmf) over the crashes within 250 feet of the project
Benefit(proj, crashes) ==
    RMul(EPDO(getFeaturesInBuffer(proj, crashes, R(250), "feet")),
         RSub(R(1), ParseFloatOr(proj.properties.cmf, Zero)))

RawSafetyFrequency(proj, crashes) == Benefit(proj, crashes)

analyzeSafetyFrequency(features, crashes) ==
    Returned(Rescale(features,
                     [i \in 1..Len(features) |-> RawSafetyFrequency(features[i], crashes)],
                     "safety_freq", R(50)))

\* the exposure of a project of the given (lower case) type
Vmt(projectType, AADT, length) ==
    IF projectType = S_highway
    THEN RDiv(RMul(RMul(AADT, length), R(365)), R(100000000))
    ELSE IF projectType = S_intersection
    THEN RDiv(RMul(AADT, R(365)), R(1000000))
    ELSE R(1)

\* vmt > 0 ? benefit / vmt : 0
RateOf(benefit, vmt) == IF RGt(vmt, Zero) THEN RDiv(benefit, vmt) ELSE Zero

\* (proj.properties.type || "highway").toLowerCase() throws, inside the
\* per-project try, on a type that is no string
RateByType(proj, crashes, typeV) ==
    IF NoStringMethods(typeV) THEN Zero
    ELSE RateOf(Benefit(proj, crashes),
                Vmt(ToLowerCase(typeV.s),
                    ParseFloatOr(proj.properties.AADT, Zero),
                    ParseFloatOr(proj.properties.length, R(1))))

RawSafetyRate(proj, crashes) ==
    RateByType(proj, crashes, OrElse(proj.properties.type, Str(S_highway)))

analyzeSafetyRate(features, crashes) ==
    Returned(Rescale(features,
                     [i \in 1..Len(features) |-> RawSafetyRate(features[i], crashes)],
                     "safety_rate", R(50)))

\* parseFloat(seg.properties.aadt_0 || seg.properties.AADT) || 0
SegmentAadt(seg) ==
    ParseFloatOr(OrElse(seg.properties.aadt_0, seg.properties.AADT), Zero)

SegmentLength(seg) == PathLength(Positions(seg.geometry))

\* totalLength > 0 ? totalVMT / totalLength : 0
WeightedAadt(totalVMT, totalLength) ==
    IF RGt(totalLength, Zero) THEN RDiv(totalVMT, totalLength) ELSE Zero

DemandOf(used) ==
    WeightedAadt(RSum([i \in 1..Len(used) |->
                          RMul(SegmentAadt(used[i]), SegmentLength(used[i]))]),
                 RSum([i \in 1..Len(used) |-> SegmentLength(used[i])]))

\* the forEach body is in a try: a segment without properties adds nothing
Counted(seg) == seg.properties # Null

RawCongestionDemand(proj, segments) ==
    DemandOf(SelectSeq(getFeaturesInBuffer(proj, segments, <<1, 4>>, "miles"), Counted))

analyzeCongestionDemand(features, segments) ==
    Returned(Rescale(features,
                     [i \in 1..Len(features) |-> RawCongestionDemand(features[i], segments)],
                     "cong_demand", R(10)))

\* losMapping[los] || 0
LosValue(los) ==
    CASE los = <<"B">> -> 1
      [] los = <<"C">> -> 2
      [] los \in {<<"D">>, <<"E">>, <<"F">>} -> 3
      [] OTHER -> 0

\* whether (seg.properties.los_0 || "A").toUpperCase() throws
LosThrows(seg) ==
    \/ seg.properties = Null
    \/ NoStringMethods(OrElse(seg.properties.los_0, Str(<<"A">>)))

\* the sum of the LOS values; a throw inside the per-project try gives 0
LosSum(intersected) ==
    IF \E i \in 1..Len(intersected) : LosThrows(intersected[i]) THEN Zero
    ELSE RSum([i \in 1..Len(intersected) |->
                  R(LosValue(ToUpperCase(
                      OrElse(intersected[i].properties.los_0, Str(<<"A">>)).s)))])

RawCongestionLos(proj, segments) ==
    LosSum(getFeaturesInBuffer(proj, segments, <<1, 4>>, "miles"))

analyzeCongestionLos(features, segments) ==
    Returned(Rescale(features,
                     [i \in 1..Len(features) |-> RawCongestionLos(features[i], segments)],
                     "cong_los", R(5)))

\* fcDistancesMiles[proj.properties.fc || "MC"] || 5
FcDistanceMiles(fc) ==
    IF fc.t # "string" THEN R(5)
    ELSE CASE fc.s = S_PA -> R(10)
           [] fc.s = S_MA -> <<15, 2>>
           [] OTHER -> R(5)

EquityBufferMiles(proj) == FcDistanceMiles(OrElse(proj.properties.fc, Str(S_MC)))

\* parseFloat(taz.properties?.name) || 0
ZoneCount(taz, name) ==
    IF taz.properties = Null THEN Zero ELSE ParseFloatOr(taz.properties[name], Zero)

\* sumEmp17 > 0 ? ((sumEmp50 - sumEmp17) / sumEmp17) * 100 : 0
PctOf(sumEmp17, sumEmp50) ==
    IF RGt(sumEmp17, Zero)
    THEN RMul(RDiv(RSub(sumEmp50, sumEmp17), sumEmp17), R(100))
    ELSE Zero

PctChange(selected) ==
    PctOf(RSum([i \in 1..Len(selected) |-> ZoneCount(selected[i], "emp17")]),
          RSum([i \in 1..Len(selected) |-> ZoneCount(selected[i], "emp50")]))

RawEquityAccessJobs(proj, zones) ==
    PctChange(getCentroidsWithin(createBuffer(proj, EquityBufferMiles(proj), "miles"), zones))

analyzeEquityAccessJobs(features, zones) ==
    IF debugTAZDataThrows(zones) THEN Threw
    ELSE Returned(Rescale(features,
                          [i \in 1..Len(features) |-> RawEquityAccessJobs(features[i], zones)],
                          "jobs_pc", R(5)))

\* the EJ variant reads taz.properties.emp17 without the ?. and so throws,
\* inside the per-project try, on a selected zone without properties
PctChangeEJ(selected) ==
    IF \E i \in 1..Len(selected) : selected[i].properties = Null THEN Zero
    ELSE PctChange(selected)

RawEquityAccessJobsEJ(proj, zones) ==
    PctChangeEJ(getCentroidsWithin(
                    createBuffer(proj, EquityBufferMiles(proj), "miles"), zones))

analyzeEquityAccessJobsEJ(features, zones) ==
    Returned(Rescale(features,
                     [i \in 1..Len(features) |-> RawEquityAccessJobsEJ(features[i], zones)],
                     "jobs_pc_ej", R(5)))

\* cycle length of the generator behind Math.random
RngPeriod == 2

\* Math.random(): the value drawn in generator state r, in [0, 1)
MathRandom(r) == Norm(r % RngPeriod, RngPeriod)

\* the stubs draw one Math.random() per project, r being the state at the call
RandomRows(features, field, scale, r) ==
    AsSeq([i \in 1..Len(features) |->
              Row(ProjectId(features, i), field, RMul(MathRandom(r + i - 1), scale))])

analyzeAccessNonWork(features, r) ==
    Returned(RandomRows(features, "access_nw_norm", R(5), r))

analyzeAccessNonWorkEJ(features, r) ==
    Returned(RandomRows(features, "access_nw_ej_norm", R(5), r))

analyzeJobGrowth(features, r) ==
    Returned(RandomRows(features, "job_growth_score", R(10), r))

\* (proj.properties.tier || "").toUpperCase(), then the tier table
TierScore(tier) ==
    CASE tier = <<"E", "I", "S">> -> R(5)
      [] tier = <<"E", "A">> -> R(7)
      [] tier = <<"C", "E">> -> R(9)
      [] OTHER -> R(10)

EnvScore(proj) == TierScore(ToUpperCase(OrElse(proj.properties.tier, Str(<<>>)).s))

\* no try inside this analyzer: a tier that is no string fails the whole call
analyzeSensitiveFeatures(features) ==
    IF \E i \in 1..Len(features) :
           NoStringMethods(OrElse(features[i].properties.tier, Str(<<>>)))
    THEN Threw
    ELSE Returned(AsSeq([i \in 1..Len(features) |->
                      Row(ProjectId(features, i), "env_impact_score", EnvScore(features[i]))]))

RawFreightJobs(proj, zones) ==
    R(Len(getCentroidsWithin(createBuffer(proj, R(5), "miles"), zones)))

analyzeFreightJobs(features, zones) ==
    IF debugTAZDataThrows(zones) THEN Threw
    ELSE Returned(Rescale(features,
                          [i \in 1..Len(features) |-> RawFreightJobs(features[i], zones)],
                          "freight_score", R(10)))

RawActivityCenters(proj, zones) ==
    R(Len(getCentroidsWithin(createBuffer(proj, R(2), "miles"), zones)))

analyzeActivityCenters(features, zones) ==
    IF debugTAZDataThrows(zones) THEN Threw
    ELSE Returned(Rescale(features,
                          [i \in 1..Len(features) |-> RawActivityCenters(features[i], zones)],
                          "activity_score", R(10)))

----------------------------------------------------------------------------
(* runAnalysis *)

\* loadGeoJSON: the features of the file, or none when reading it throws
\* (no such path, no JSON, features that are no array)
loadGeoJSON(filePaths, name) ==
    IF name \in DOMAIN filePaths /\ filePaths[name].readable
    THEN filePaths[name].features
    ELSE <<>>

\* the files object after the load and clean steps
LoadFiles(filePaths) ==
    [projects |-> loadGeoJSON(filePaths, "projects"),
     crashes |-> loadGeoJSON(filePaths, "crashes"),
     aadt |-> loadGeoJSON(filePaths, "aadt"),
     popemp |-> cleanGeoJSON(loadGeoJSON(filePaths, "popemp")),
     lehd |-> cleanGeoJSON(loadGeoJSON(filePaths, "lehd")),
     actv |-> cleanGeoJSON(loadGeoJSON(filePaths, "actv"))]

\* feat.properties.project_id of a feature without properties is a TypeError
DefaultingThrows(features) ==
    \E i \in 1..Len(features) : features[i].properties = Null

\* the defaulting step; i is the 1-based position (i + 1 in the code)
WithDefaults(feat, i) ==
    [feat EXCEPT !.properties =
        [@ EXCEPT !.project_id = OrElse(@, Num(R(i))),
                  !.type = OrElse(@, Str(S_unknown)),
                  !.county = OrElse(@, Str(S_unknown)),
                  !.cost_mil = Num(ParseFloatOr(@, R(1))),
                  !.tier = OrElse(@, Str(S_unknown)),
                  !.fc = OrElse(@, Str(S_MC)),
                  !.cmf = Num(ParseFloatOr(@, Zero)),
                  !.AADT = Num(ParseFloatOr(@, Zero)),
                  !.length = Num(ParseFloatOr(@, R(1)))]]

ProjectDefaults(features) ==
    AsSeq([i \in 1..Len(features) |-> WithDefaults(features[i], i)])

scoreColumns ==
    <<"safety_freq", "safety_rate", "cong_demand", "cong_los", "jobs_pc", "jobs_pc_ej",
      "access_nw_norm", "access_nw_ej_norm", "env_impact_score", "job_growth_score",
      "freight_score", "activity_score">>

\* the Map: a sequence of [key, val] in insertion order
MapHas(m, k) == \E i \in 1..Len(m) : m[i].key = k

MapGet(m, k) == m[CHOOSE i \in 1..Len(m) : m[i].key = k].val

\* Map.prototype.set: a present key keeps its place and takes the new value
MapSet(m, k, v) ==
    IF MapHas(m, k)
    THEN LET at == CHOOSE i \in 1..Len(m) : m[i].key = k
         IN  SubSeq(m, 1, at - 1) \o <<[key |-> k, val |-> v]>> \o SubSeq(m, at + 1, Len(m))
    ELSE Append(m, [key |-> k, val |-> v])

\* { ...feat.properties, geometry, <every score>: 1 }
InitialRecord(feat) ==
    [c \in {scoreColumns[i] : i \in 1..Len(scoreColumns)} |-> R(1)]
        @@ [geometry |-> feat.geometry] @@ feat.properties

RECURSIVE InitResults(_, _)
\* files.projects.features.forEach(feat => resultsMap.set(pid, ...)), first n features
InitResults(features, n) ==
    IF n = 0 THEN <<>>
    ELSE MapSet(InitResults(features, n - 1),
                features[n].properties.project_id, InitialRecord(features[n]))

\* { ...resultsMap.get(pid), ...res }
Merged(rec, res) == [rec EXCEPT !.project_id = res.project_id, ![res.field] = res.value]

RECURSIVE MergeRows(_, _, _)
\* result.forEach(res => if (resultsMap.has(pid)) resultsMap.set(pid, merged)), first n rows
MergeRows(m, rows, n) ==
    IF n = 0 THEN m
    ELSE LET before == MergeRows(m, rows, n - 1)
             res == rows[n]
         IN  IF MapHas(before, res.project_id)
             THEN MapSet(before, res.project_id, Merged(MapGet(before, res.project_id), res))
             ELSE before

\* the analyses array with each fn applied to its args; r is the state of
\* Math.random when the loop starts
Analyses(files, r) ==
        <<analyzeSafetyFrequency(files.projects, files.crashes),
          analyzeSafetyRate(files.projects, files.crashes),
          analyzeCongestionDemand(files.projects, files.aadt),
          analyzeCongestionLos(files.projects, files.aadt),
          analyzeEquityAccessJobs(files.projects, files.popemp),
          analyzeEquityAccessJobsEJ(files.projects, files.popemp),
          analyzeAccessNonWork(files.projects, r),
          analyzeAccessNonWorkEJ(files.projects, r + Len(files.projects)),
          analyzeSensitiveFeatures(files.projects),
          analyzeJobGrowth(files.projects, r + 2 * Len(files.projects)),
          analyzeFreightJobs(files.projects, files.lehd),
          analyzeActivityCenters(files.projects, files.actv)>>

RECURSIVE RunAnalyses(_, _, _)
\* for (const analysis of analyses) try { merge } catch { log }, first n analyses
RunAnalyses(m, results, n) ==
    IF n = 0 THEN m
    ELSE LET before == RunAnalyses(m, results, n - 1)
         IN  IF before = <<>> \/ results[n].threw THEN before
             ELSE MergeRows(before, results[n].rows, Len(results[n].rows))

\* parseFloat(project[col] || 0) of a score, which is a number
ScoreValue(x) == IF IsNaN(x) THEN Zero ELSE x

\* scoreColumns.forEach(col => project[col] = parseFloat(project[col] || 0))
Scored(project) ==
    [f \in DOMAIN project |->
        IF \E i \in 1..Len(scoreColumns) : scoreColumns[i] = f
        THEN ScoreValue(project[f]) ELSE project[f]]

\* a faulty variant of TotalScore: the reduce starts after the first column
TotalScoreSkipsFirst(project) ==
    RSum([i \in 1..(Len(scoreColumns) - 1) |-> project[scoreColumns[i + 1]]])

\* scoreColumns.reduce((sum, col) => sum + project[col], 0)
TotalScore(project) == RSum([i \in 1..Len(scoreColumns) |-> project[scoreColumns[i]]])

\* project.cost_mil = parseFloat(project.cost_mil || 1)
CostMil(project) == ParseFloat(OrElse(project.cost_mil, Num(R(1))))

\* a faulty variant of Bcr: the division without the cost_mil > 0 test
BcrUnguarded(total, cost) == RDiv(total, cost)

\* project.cost_mil > 0 ? project.total_score / project.cost_mil : 0
Bcr(total, cost) == IF RGt(cost, Zero) THEN RDiv(total, cost) ELSE Zero

Totalled(scored, total, cost) ==
    [total_score |-> total, bcr |-> Bcr(total, cost)] @@ [scored EXCEPT !.cost_mil = cost]

\* total_score and bcr of one record of finalData
WithTotals(project) ==
    Totalled(Scored(project), TotalScore(Scored(project)), CostMil(project))

\* a faulty variant of CompareBcr: a.bcr - b.bcr, which sorts ascending
CompareBcrAscending(a, b) ==
    IF RLt(b.bcr, a.bcr) THEN 1 ELSE IF RLt(a.bcr, b.bcr) THEN -1 ELSE 0

\* the comparator of finalData.sort, b.bcr - a.bcr, as the sort reads it:
\* its sign, NaN counting as 0
CompareBcr(a, b) ==
    IF RLt(a.bcr, b.bcr) THEN 1 ELSE IF RLt(b.bcr, a.bcr) THEN -1 ELSE 0

RECURSIVE InsertSorted(_, _)
InsertSorted(sorted, x) ==
    IF sorted = <<>> THEN <<x>>
    ELSE IF CompareBcr(sorted[Len(sorted)], x) > 0
         THEN Append(InsertSorted(SubSeq(sorted, 1, Len(sorted) - 1), x), sorted[Len(sorted)])
         ELSE Append(sorted, x)

RECURSIVE SortByBcr(_)
\* Array.prototype.sort with the comparator: stable, by descending bcr
SortByBcr(xs) ==
    IF Len(xs) <= 1 THEN xs
    ELSE InsertSorted(SortByBcr(SubSeq(xs, 1, Len(xs) - 1)), xs[Len(xs)])

\* finalData.forEach((proj, i) => proj.rank = i + 1)
AssignRanks(xs) == AsSeq([i \in 1..Len(xs) |-> [rank |-> i] @@ xs[i]])

ResponseFields ==
    {"project_id", "type", "county", "cost_mil", "tier", "total_score", "bcr", "rank"}
        \cup {scoreColumns[i] : i \in 1..Len(scoreColumns)}

\* the record of the response for one project of finalData
ResultRecord(proj) == [f \in ResponseFields |-> proj[f]]

\* the object runAnalysis returns
Results(finalData) ==
    [projects |-> AsSeq([i \in 1..Len(finalData) |-> ResultRecord(finalData[i])]),
     summary |-> [total_projects |-> Len(finalData),
                  total_cost |-> RSum([i \in 1..Len(finalData) |-> finalData[i].cost_mil])]]

\* totals, sort, ranks and the returned object
Ranked(m) ==
    Results(AssignRanks(SortByBcr(AsSeq([i \in 1..Len(m) |-> WithTotals(m[i].val)]))))

\* runAnalysis(filePaths): what it leaves behind and what it returns or throws
\* the end of runAnalysis: m is the resultsMap after the loop
Finish(files, results, m, r) ==
    [resultsMap |-> m, rng |-> (r + 3 * Len(files.projects)) % RngPeriod,
     value |-> Ranked(m), threw |-> FALSE, files |-> files, analyses |-> results]

\* the loop over the analyses
Looped(files, results, r) ==
    Finish(files, results,
           RunAnalyses(InitResults(files.projects, Len(files.projects)),
                       results, Len(results)),
           r)

\* runAnalysis from the resultsMap initialisation on
Analysed(files, r) == Looped(files, Analyses(files, r), r)

\* runAnalysis from the defaulting step on; a throw there leaves through
\* the catch, which rethrows
Defaulted(loaded, r) ==
    IF DefaultingThrows(loaded.projects)
    THEN [resultsMap |-> <<>>, rng |-> r, value |-> [projects |-> <<>>],
          threw |-> TRUE, files |-> loaded, analyses |-> <<>>]
    ELSE Analysed([loaded EXCEPT !.projects = ProjectDefaults(@)], r)

\* runAnalysis(filePaths): what it leaves behind and what it returns or throws
runAnalysis(filePaths, r) == Defaulted(LoadFiles(filePaths), r)

----------------------------------------------------------------------------
(* The uploads a request can carry *)

PosXY(x, y) == Arr(<<Num(R(x)), Num(R(y))>>)
Pos(x) == PosXY(x, 0)

PointAt(x) == [type |-> "Point", coordinates |-> Pos(x)]

LineAt(x1, x2) == [type |-> "LineString", coordinates |-> Arr(<<Pos(x1), Pos(x2)>>)]

Ring(x1, x2) == Arr(<<Pos(x1), Pos(x2), PosXY(x2, 1), PosXY(x1, 1), Pos(x1)>>)

PolygonAt(x1, x2) == [type |-> "Polygon", coordinates |-> Arr(<<Ring(x1, x2)>>)]

MultiPolygonAt(x1, x2) ==
    [type |-> "MultiPolygon", coordinates |-> Arr(<<Arr(<<Ring(x1, x2)>>)>>)]

Feature(properties, geometry) == [geometry |-> geometry, properties |-> properties]

ProjectProps(id, type, cost, tier, fc, cmf, aadt) ==
    [type |-> type, project_id |-> id, cmf |-> cmf, AADT |-> aadt, length |-> Undefined,
     fc |-> fc, tier |-> tier, county |-> Undefined, cost_mil |-> cost]

\* the project features an upload is made of
ProjectCatalog ==
    <<Feature(ProjectProps(Undefined, Undefined, Num(R(2)), Undefined,
                           Undefined, Undefined, Undefined), LineAt(0, 1)),
      Feature(ProjectProps(Num(R(1)), Str(S_intersection), Num(Zero), Str(<<"e", "i", "s">>),
                           Str(S_PA), Str(<<"0", ".", "5">>), Num(R(1000000))),
              LineAt(0, 1)),
      Feature(ProjectProps(Num(R(2)), Str(<<"H", "i", "g", "h", "w", "a", "y">>),
                           Str(<<"a", "b", "c">>), Str(<<"C", "E">>),
                           Undefined, Num(<<10001, 10000>>), Undefined), LineAt(0, 1)),
      Feature(ProjectProps(Num(R(2)), Num(R(5)), Num(R(-2)), Str(<<"E", "A">>),
                           Undefined, Undefined, Str(<<"1", "0", "0", "0">>)), PointAt(10)),
      Feature(ProjectProps(Num(R(3)), Str(S_highway), Str(<<"-", "2", "m">>), Num(R(3)),
                           Str(S_MA), Undefined, Num(R(1000000))), Null),
      Feature(Null, LineAt(0, 1))>>

\* the project collections: every sequence of at most MaxProjects different
\* catalog features
ProjectCollections ==
    UNION {{c \in [1..n -> 1..Len(ProjectCatalog)] :
               \A i, j \in 1..n : c[i] = c[j] => i = j} : n \in 0..MaxProjects}

CrashProps(k, a, b, c) == [K_PEOPLE |-> k, A_PEOPLE |-> a, B_PEOPLE |-> b, C_PEOPLE |-> c]

SegmentProps(aadt0, aadt, los) == [AADT |-> aadt, aadt_0 |-> aadt0, los_0 |-> los]

ZoneProps(emp17, emp50) == [emp17 |-> emp17, emp50 |-> emp50]

ZoneGrowing == Feature(ZoneProps(Num(R(100)), Num(R(150))), LineAt(0, 2))
ZoneShrinking == Feature(ZoneProps(Str(<<"1", "0", "0">>), Num(R(50))), LineAt(7, 9))
ZonePolygon == Feature(ZoneProps(Num(R(100)), Num(R(300))), PolygonAt(0, 2))
ZoneMultiPolygon == Feature(ZoneProps(Num(R(100)), Num(R(300))), MultiPolygonAt(0, 2))
ZonePoint == Feature(ZoneProps(Num(R(100)), Num(R(300))), PointAt(1))
EmploymentZone == Feature(ZoneProps(Num(R(100)), Num(R(150))), PolygonAt(0, 2))
ZoneStringCoord ==
    Feature(ZoneProps(Num(R(100)), Num(R(300))),
            [type |-> "LineString",
             coordinates |-> Arr(<<Pos(0), Arr(<<Str(<<"N", "a", "N">>), Num(Zero)>>)>>)])
ZoneNullCoord ==
    Feature(ZoneProps(Num(R(100)), Num(R(300))),
            [type |-> "LineString", coordinates |-> Arr(<<Pos(0), Arr(<<Null, Num(Zero)>>)>>)])
\* 1e999 in the file: JSON.parse gives Infinity
ZoneInfiniteCoord ==
    Feature(ZoneProps(Num(R(100)), Num(R(300))),
            [type |-> "LineString",
             coordinates |-> Arr(<<Pos(0), Arr(<<Num(<<1, 0>>), Num(Zero)>>)>>)])
ZoneNoGeometry == Feature(ZoneProps(Num(R(100)), Num(R(300))), Null)
ZoneNoProperties == Feature(Null, LineAt(0, 2))

File(features) == [features |-> features, readable |-> TRUE]
Unreadable == [features |-> <<>>, readable |-> FALSE]

\* the reference layers uploaded together: crashes, aadt, popemp, lehd, actv
DataSets ==
    <<[crashes |-> File(<<>>), aadt |-> Unreadable, popemp |-> File(<<>>),
       lehd |-> File(<<>>), actv |-> Unreadable],
      [crashes |-> File(<<Feature(CrashProps(Num(R(1)), Undefined, Undefined, Undefined),
                                  PointAt(0))>>),
       aadt |-> File(<<>>), popemp |-> File(<<>>), lehd |-> File(<<>>), actv |-> File(<<>>)],
      [crashes |-> File(<<Feature(CrashProps(Num(R(1)), Undefined, Undefined, Undefined),
                                  PointAt(0)),
                          Feature(CrashProps(Undefined, Str(<<"x">>), Str(<<"2">>), Num(R(1))),
                                  PointAt(1)),
                          Feature(Null, PointAt(0)),
                          Feature(CrashProps(Num(R(1)), Undefined, Undefined, Undefined), Null)>>),
       aadt |-> File(<<Feature(SegmentProps(Num(R(1000)), Undefined, Str(<<"c">>)),
                               LineAt(0, 2)),
                       Feature(SegmentProps(Undefined, Str(<<"5", "0", "0">>), Str(<<"F">>)),
                               LineAt(1, 2)),
                       Feature(SegmentProps(Num(R(200)), Undefined, Undefined),
                               LineAt(10, 12))>>),
       popemp |-> File(<<ZoneGrowing, ZoneShrinking, ZonePolygon, ZonePoint,
                         ZoneStringCoord, ZoneNoGeometry>>),
       lehd |-> File(<<ZoneGrowing, ZoneShrinking, ZoneMultiPolygon, ZoneNullCoord>>),
       actv |-> File(<<ZoneGrowing, ZonePoint>>)],
      [crashes |-> File(<<Feature(CrashProps(Undefined, Undefined, Num(R(1)), Undefined),
                                  LineAt(1, 3))>>),
       aadt |-> File(<<Feature(Null, LineAt(0, 2)),
                       Feature(SegmentProps(Num(R(300)), Undefined, Num(R(2))),
                               LineAt(10, 11))>>),
       popemp |-> File(<<ZoneNoProperties, ZoneInfiniteCoord, ZoneShrinking>>),
       lehd |-> File(<<ZoneInfiniteCoord>>),
       actv |-> File(<<ZoneShrinking>>)],
      [crashes |-> File(<<>>), aadt |-> File(<<>>), popemp |-> File(<<EmploymentZone>>),
       lehd |-> File(<<ZonePoint>>), actv |-> File(<<ZonePolygon>>)]>>

UploadFields ==
    <<"projects_file", "crashes_file", "aadt_file", "popemp_file", "actv_file", "con_file",
      "fhz_file", "frsk_file", "lehd_file", "nw_file", "t6_file", "wet_file">>

FieldSet == {UploadFields[i] : i \in 1..Len(UploadFields)}

\* key.replace("_file", "")
DatasetOf(key) ==
    CASE key = "projects_file" -> "projects"
      [] key = "crashes_file" -> "crashes"
      [] key = "aadt_file" -> "aadt"
      [] key = "popemp_file" -> "popemp"
      [] key = "actv_file" -> "actv"
      [] key = "con_file" -> "con"
      [] key = "fhz_file" -> "fhz"
      [] key = "frsk_file" -> "frsk"
      [] key = "lehd_file" -> "lehd"
      [] key = "nw_file" -> "nw"
      [] key = "t6_file" -> "t6"
      [] key = "wet_file" -> "wet"

\* the files of a request that uploads the fields present, with the project
\* collection c and the reference layers d
Uploaded(present, c, d) ==
    [k \in present |->
        CASE k = "projects_file" -> File(AsSeq([i \in 1..Len(c) |-> ProjectCatalog[c[i]]]))
          [] k = "crashes_file" -> d.crashes
          [] k = "aadt_file" -> d.aadt
          [] k = "popemp_file" -> d.popemp
          [] k = "lehd_file" -> d.lehd
          [] k = "actv_file" -> d.actv
          [] OTHER -> File(<<>>)]

\* req.files is undefined when the request is no multipart form
NoFiles == [files |-> <<>>, defined |-> FALSE]

----------------------------------------------------------------------------
(* The POST /analyze handler *)

\* a faulty variant of requiredFiles: "con" is left out of the list
requiredFilesWithoutCon ==
    <<"projects", "crashes", "aadt", "popemp", "t6", "nw", "fhz", "frsk", "wet">>

\* const requiredFiles = [...]
requiredFiles ==
    <<"projects", "crashes", "aadt", "popemp", "t6", "nw", "fhz", "frsk", "wet", "con">>

\* filePaths: dataset name -> uploaded file
FilePaths(files) ==
    [name \in {DatasetOf(k) : k \in DOMAIN files} |->
        files[CHOOSE k \in DOMAIN files : DatasetOf(k) = name]]

\* requiredFiles.filter(file => !filePaths[file])
MissingFiles(filePaths) ==
    LET Absent(file) == file \notin DOMAIN filePaths
    IN  SelectSeq(requiredFiles, Absent)

NoResponse == [status |-> 0]

Init ==
    /\ pc = "idle"
    /\ reqFiles = NoFiles
    /\ started = FALSE
    /\ projects = <<>>
    /\ cleaned = [popemp |-> <<>>, lehd |-> <<>>, actv |-> <<>>]
    /\ analysisResults = <<>>
    /\ resultsMap = <<>>
    /\ outcome = [value |-> [projects |-> <<>>], threw |-> FALSE]
    /\ response = NoResponse
    /\ rng \in 0..(RngPeriod - 1)
    /\ now = 0
    /\ uploads = <<>>
    /\ inv = <<>>

\* multer has stored the files of a new request and calls the handler
Arrive(files) ==
    /\ pc = "idle"
    /\ pc' = "handler"
    /\ reqFiles' = files
    /\ started' = FALSE
    /\ projects' = <<>>
    /\ cleaned' = [popemp |-> <<>>, lehd |-> <<>>, actv |-> <<>>]
    /\ analysisResults' = <<>>
    /\ resultsMap' = <<>>
    /\ outcome' = [value |-> [projects |-> <<>>], threw |-> FALSE]
    /\ response' = NoResponse
    /\ UNCHANGED <<rng, now, uploads, inv>>

\* a request that is no multipart form
UploadNone == Arrive(NoFiles)

\* a request that leaves out up to MaxMissing of the twelve fields
UploadPartial ==
    \E missing \in SUBSET FieldSet :
        /\ Cardinality(missing) \in 1..MaxMissing
        /\ Arrive([files |-> Uploaded(FieldSet \ missing, <<1, 2>>, DataSets[3]),
                   defined |-> TRUE])

\* a request with all twelve fields
UploadAll ==
    \E c \in ProjectCollections, d \in 1..Len(DataSets) :
        Arrive([files |-> Uploaded(FieldSet, c, DataSets[d]), defined |-> TRUE])

\* if (!req.files) return res.status(400).json({ error: "No files uploaded" })
RejectNoFiles ==
    /\ pc = "handler"
    /\ ~reqFiles.defined
    /\ response' = [status |-> 400, error |-> "No files uploaded"]
    /\ pc' = "done"
    /\ UNCHANGED <<reqFiles, started, projects, cleaned, analysisResults, resultsMap,
                   outcome, rng, now, uploads, inv>>

\* if (missingFiles.length > 0) return res.status(400).json({ error, missing })
RejectMissing ==
    /\ pc = "handler"
    /\ reqFiles.defined
    /\ MissingFiles(FilePaths(reqFiles.files)) # <<>>
    /\ response' = [status |-> 400, missing |-> MissingFiles(FilePaths(reqFiles.files)),
                    error |-> "Missing required files"]
    /\ pc' = "done"
    /\ UNCHANGED <<reqFiles, started, projects, cleaned, analysisResults, resultsMap,
                   outcome, rng, now, uploads, inv>>

\* what a run of runAnalysis leaves in the state
Settle(run) ==
    /\ started' = TRUE
    /\ projects' = run.files.projects
    /\ cleaned' = [popemp |-> run.files.popemp, lehd |-> run.files.lehd,
                   actv |-> run.files.actv]
    /\ analysisResults' = run.analyses
    /\ resultsMap' = run.resultsMap
    /\ outcome' = [value |-> run.value, threw |-> run.threw]
    /\ rng' = run.rng

\* const results = await runAnalysis(filePaths, outputDir): runAnalysis has no
\* await inside, so it runs to its end in one step; the handler resumes later
Analyze ==
    /\ pc = "handler"
    /\ reqFiles.defined
    /\ MissingFiles(FilePaths(reqFiles.files)) = <<>>
    /\ Settle(runAnalysis(FilePaths(reqFiles.files), rng))
    /\ pc' = "awaiting"
    /\ UNCHANGED <<reqFiles, response, now, uploads, inv>>

\* res.json(results)
SendResults ==
    /\ pc = "awaiting"
    /\ ~outcome.threw
    /\ response' = [status |-> 200, body |-> outcome.value]
    /\ pc' = "done"
    /\ UNCHANGED <<reqFiles, started, projects, cleaned, analysisResults, resultsMap,
                   outcome, rng, now, uploads, inv>>

\* catch (error): res.status(500).json({ error: "Analysis failed", details })
SendFailure ==
    /\ pc = "awaiting"
    /\ outcome.threw
    /\ response' = [status |-> 500, error |-> "Analysis failed"]
    /\ pc' = "done"
    /\ UNCHANGED <<reqFiles, started, projects, cleaned, analysisResults, resultsMap,
                   outcome, rng, now, uploads, inv>>

Next ==
    \/ UploadNone
    \/ UploadPartial
    \/ UploadAll
    \/ RejectNoFiles
    \/ RejectMissing
    \/ Analyze
    \/ SendResults
    \/ SendFailure

Spec == Init /\ [][Next]_vars

-----------------------------------------------------------------------------
(* Concurrent invocations of POST /analyze.  Every request carries all     *)
(* twelve files.  multer stores the files of a request one by one in       *)
(* ./uploads, each under `${Date.now()}-${file.originalname}`, and then    *)
(* calls the handler, which runs to its await in one step.                 *)

\* the last millisecond of the clock
MaxClock == 1

Invocations == {1, 2}

\* what the client of an invocation uploads: the two requests differ in
\* their projects
RequestBody(i) ==
    IF i = 1 THEN Uploaded(FieldSet, <<1>>, DataSets[2])
    ELSE Uploaded(FieldSet, <<2, 5>>, DataSets[2])

\* file.originalname: the clients name each file after its dataset
OriginalName(field) == DatasetOf(field)

\* the path multer's diskStorage gives a file: destination "./uploads/",
\* filename `${Date.now()}-${file.originalname}`
StoredPath(time, field) == <<time, OriginalName(field)>>

\* the variables of the single-request model
request ==
    <<pc, reqFiles, started, projects, cleaned, analysisResults, resultsMap, outcome,
      response>>

\* an invocation whose request has begun to arrive: paths is req.files so
\* far (field -> path), read what loadGeoJSON got from each path, seed the
\* state of Math.random when runAnalysis began
NewInvocation ==
    [pc |-> "uploading", outcome |-> [value |-> [projects |-> <<>>], threw |-> FALSE],
     response |-> NoResponse, paths |-> <<>>, read |-> <<>>, seed |-> 0]

InitConcurrent ==
    /\ pc = "idle"
    /\ reqFiles = NoFiles
    /\ started = FALSE
    /\ projects = <<>>
    /\ cleaned = [popemp |-> <<>>, lehd |-> <<>>, actv |-> <<>>]
    /\ analysisResults = <<>>
    /\ resultsMap = <<>>
    /\ outcome = [value |-> [projects |-> <<>>], threw |-> FALSE]
    /\ response = NoResponse
    /\ rng \in 0..(RngPeriod - 1)
    /\ now = 0
    /\ uploads = <<>>
    /\ inv = [i \in Invocations |-> NewInvocation]

\* a millisecond passes while files are being stored
Tick ==
    /\ now < MaxClock
    /\ \E i \in Invocations : inv[i].pc = "uploading"
    /\ now' = now + 1
    /\ UNCHANGED <<request, rng, uploads, inv>>

\* the next field of the multipart body of an invocation
NextField(i) == UploadFields[Cardinality(DOMAIN inv[i].paths) + 1]

\* multer stores the next file of a request: the write stream replaces
\* whatever the path held; after the last file the handler is called
StoreFile(i) ==
    /\ inv[i].pc = "uploading"
    /\ uploads' = (StoredPath(now, NextField(i)) :> RequestBody(i)[NextField(i)]) @@ uploads
    /\ inv' = [inv EXCEPT
                  ![i].paths = (NextField(i) :> StoredPath(now, NextField(i))) @@ @,
                  ![i].pc = IF DOMAIN inv[i].paths \cup {NextField(i)} = FieldSet
                            THEN "handler" ELSE "uploading"]
    /\ UNCHANGED <<request, rng, now>>

\* what the paths of req.files hold when the handler runs
FilesRead(i) == [f \in DOMAIN inv[i].paths |-> uploads[inv[i].paths[f]]]

\* what a run of runAnalysis leaves with its invocation
Handled(i, read, run) ==
    /\ inv' = [inv EXCEPT ![i].pc = "awaiting",
                          ![i].outcome = [value |-> run.value, threw |-> run.threw],
                          ![i].read = read,
                          ![i].seed = rng]
    /\ rng' = run.rng

\* the handler of an invocation: no required file is missing, so it goes
\* through runAnalysis up to the await
Handle(i) ==
    /\ inv[i].pc = "handler"
    /\ MissingFiles(FilePaths(FilesRead(i))) = <<>>
    /\ Handled(i, FilesRead(i), runAnalysis(FilePaths(FilesRead(i)), rng))
    /\ UNCHANGED <<request, now, uploads>>

\* res.json(results), or the 500 of the catch
Respond(i) ==
    /\ inv[i].pc = "awaiting"
    /\ inv' = [inv EXCEPT
                  ![i].pc = "done",
                  ![i].response = IF inv[i].outcome.threw
                                  THEN [status |-> 500, error |-> "Analysis failed"]
                                  ELSE [status |-> 200, body |-> inv[i].outcome.value]]
    /\ UNCHANGED <<request, rng, now, uploads>>

NextConcurrent ==
    \/ Tick
    \/ \E i \in Invocations : StoreFile(i)
    \/ \E i \in Invocations : Handle(i)
    \/ \E i \in Invocations : Respond(i)

SpecConcurrent == InitConcurrent /\ [][NextConcurrent]_vars

-----------------------------------------------------------------------------
(* Properties of a request, stated over what was uploaded and what was     *)
(* answered                                                                 *)

\* the project features as uploaded, before runAnalysis touches them
InputProjects ==
    IF reqFiles.defined /\ "projects_file" \in DOMAIN reqFiles.files
    THEN reqFiles.files["projects_file"].features
    ELSE <<>>

\* the features uploaded in one field, none when the field is absent
InputLayer(field) ==
    IF reqFiles.defined /\ field \in DOMAIN reqFiles.files
    THEN reqFiles.files[field].features
    ELSE <<>>

\* the project records of a 200 response
Reported == response.body.projects

\* C1: a successful analysis of N uploaded project features answers with
\* exactly N project records, and summary.total_projects is N
C1_OneRecordPerProject ==
    response.status = 200 =>
        /\ Len(Reported) = Len(InputProjects)
        /\ response.body.summary.total_projects = Len(InputProjects)

\* C2: once the defaulting step has run, no two project features carry the
\* same project_id
C2_ProjectIdsUnique ==
    (started /\ ~outcome.threw) =>
        \A i, j \in 1..Len(projects) :
            projects[i].properties.project_id = projects[j].properties.project_id
                => i = j

\* the criteria whose raw values are rescaled against the largest raw value,
\* by their place in the list of analyses
RescaledCriteria == {1, 2, 3, 4, 5, 6, 11, 12}

\* the cap of a rescaled score field
CapOf(field) ==
    CASE field = "safety_freq" -> R(50)
      [] field = "safety_rate" -> R(50)
      [] field = "cong_demand" -> R(10)
      [] field = "cong_los" -> R(5)
      [] field = "jobs_pc" -> R(5)
      [] field = "jobs_pc_ej" -> R(5)
      [] field = "freight_score" -> R(10)
      [] field = "activity_score" -> R(10)

\* the rescaled analyses that returned rows
RescaledRows ==
    {analysisResults[k].rows :
        k \in {c \in RescaledCriteria :
                  c <= Len(analysisResults) /\ ~analysisResults[c].threw}}

\* C3: every rescaled score lies between 0 and the cap of its criterion, and
\* a project whose raw value is the largest of the run scores exactly the cap
C3_ScoresWithinCap ==
    \A rows \in RescaledRows :
        \A i \in 1..Len(rows) :
            /\ RLe(Zero, rows[i].value)
            /\ RLe(rows[i].value, CapOf(rows[i].field))
            /\ (\A j \in 1..Len(rows) : RLe(rows[j].raw, rows[i].raw))
                  => rows[i].value = CapOf(rows[i].field)

\* C4: when every project's raw value of a rescaled criterion is 0, every
\* project's score for that criterion is 0
C4_AllZeroStaysZero ==
    \A rows \in RescaledRows :
        (\A i \in 1..Len(rows) : rows[i].raw = Zero)
            => \A i \in 1..Len(rows) : rows[i].value = Zero

\* a run in which a rescaled criterion of two or more projects has all raw
\* values 0
C4_Witness ==
    \E rows \in RescaledRows :
        /\ Len(rows) >= 2
        /\ \A i \in 1..Len(rows) : rows[i].raw = Zero

\* C5: the records of a response carry the ranks 1, 2, ..., N in order, and
\* bcr never increases from one record to the next
C5_RanksFollowBcr ==
    response.status = 200 =>
        /\ \A i \in 1..Len(Reported) : Reported[i].rank = i
        /\ \A i, j \in 1..Len(Reported) :
              i < j => RLe(Reported[j].bcr, Reported[i].bcr)

\* a response of three records of falling bcr whose first record is not the
\* first project of the input
C5_Witness ==
    /\ response.status = 200
    /\ Len(Reported) = 3
    /\ RLt(Reported[3].bcr, Reported[1].bcr)
    /\ Reported[1].project_id # projects[1].properties.project_id

\* the twelve criterion score fields of an output record
CriterionScores ==
    <<"safety_freq", "safety_rate", "cong_demand", "cong_los", "jobs_pc", "jobs_pc_ej",
      "access_nw_norm", "access_nw_ej_norm", "env_impact_score", "job_growth_score",
      "freight_score", "activity_score">>

\* C6: in every output record total_score is the sum of the twelve criterion
\* scores of that record, whether an analyzer wrote them or the default stayed
C6_TotalIsSumOfScores ==
    response.status = 200 =>
        \A i \in 1..Len(Reported) :
            Reported[i].total_score =
                RSum([c \in 1..Len(CriterionScores) |-> Reported[i][CriterionScores[c]]])

\* an output record in which one analyzer's score and one default left by a
\* failed analyzer are summed
C6_Witness ==
    /\ response.status = 200
    /\ analysisResults[9].threw
    /\ \E i \in 1..Len(Reported) :
          /\ Reported[i].env_impact_score = R(1)
          /\ Reported[i].safety_freq = R(50)

\* the cost an output record is to report for an input feature: the input
\* value, or 1 when it is missing, unparseable or 0
ReportedCost(feat) ==
    IF IsNaN(ParseFloat(feat.properties.cost_mil))
           \/ ParseFloat(feat.properties.cost_mil) = Zero
    THEN R(1)
    ELSE ParseFloat(feat.properties.cost_mil)

\* C7: in every output record bcr is total_score / cost_mil when cost_mil > 0
\* and 0 otherwise, cost_mil being the reported cost of an input feature;
\* total_score 60 at cost_mil 2 gives bcr 30
C7_BcrIsTotalOverCost ==
    /\ Bcr(R(60), R(2)) = R(30)
    /\ response.status = 200 =>
          \A i \in 1..Len(Reported) :
              /\ Reported[i].bcr =
                     IF RGt(Reported[i].cost_mil, Zero)
                     THEN RDiv(Reported[i].total_score, Reported[i].cost_mil)
                     ELSE Zero
              /\ \E j \in 1..Len(InputProjects) :
                     Reported[i].cost_mil = ReportedCost(InputProjects[j])

\* a response with a record of cost 2 and positive total, and a record whose
\* cost is not positive
C7_Witness ==
    /\ response.status = 200
    /\ \E i \in 1..Len(Reported) :
          /\ Reported[i].cost_mil = R(2)
          /\ RGt(Reported[i].total_score, Zero)
          /\ Reported[i].bcr = RDiv(Reported[i].total_score, R(2))
    /\ \E i \in 1..Len(Reported) : ~RGt(Reported[i].cost_mil, Zero)

\* the output record rec reports the project feature feat
Reports(rec, feat) ==
    /\ rec.project_id = feat.properties.project_id
    /\ rec.type = feat.properties.type
    /\ rec.tier = feat.properties.tier
    /\ Num(rec.cost_mil) = feat.properties.cost_mil

\* C8: of two output records with equal bcr, the one whose project comes
\* earlier in the input collection has the smaller rank
C8_TiesKeepInputOrder ==
    response.status = 200 =>
        \A i, j \in 1..Len(Reported) :
            (i < j /\ Reported[i].bcr = Reported[j].bcr) =>
                \A a, b \in 1..Len(projects) :
                    (Reports(Reported[i], projects[a]) /\ Reports(Reported[j], projects[b]))
                        => a < b

\* the ten datasets the handler requires
RequiredDatasets ==
    {"projects", "crashes", "aadt", "popemp", "t6", "nw", "fhz", "frsk", "wet", "con"}

\* the datasets the request carries
UploadedDatasets ==
    IF reqFiles.defined THEN {DatasetOf(k) : k \in DOMAIN reqFiles.files} ELSE {}

AbsentRequired == RequiredDatasets \ UploadedDatasets

\* the datasets an error response lists
Listed ==
    IF "missing" \in DOMAIN response
    THEN {response.missing[i] : i \in 1..Len(response.missing)}
    ELSE {}

\* runAnalysis starts only on a complete required set, and absent optional
\* datasets are empty collections
RunsOnlyComplete ==
    /\ started => AbsentRequired = {}
    /\ (started /\ "lehd" \notin UploadedDatasets) => cleaned.lehd = <<>>
    /\ (started /\ "actv" \notin UploadedDatasets) => cleaned.actv = <<>>
    /\ (pc = "done" /\ AbsentRequired = {}) => (started /\ response.status # 400)

\* C9, as the handler does it: a request with a required dataset absent is
\* answered 400 and runAnalysis never starts; the answer lists exactly the
\* absent required datasets when req.files is set, and is "No files uploaded"
\* with no list when req.files is undefined; absent optional datasets are
\* empty collections and no error
C9_RejectsIncomplete ==
    /\ RunsOnlyComplete
    /\ (pc = "done" /\ AbsentRequired # {}) =>
          /\ response.status = 400
          /\ ~started
          /\ reqFiles.defined =>
                ("missing" \in DOMAIN response /\ Listed = AbsentRequired)
          /\ ~reqFiles.defined =>
                ("missing" \notin DOMAIN response /\ response.error = "No files uploaded")

\* a request with files but without a required dataset, answered with the list
C9_Witness ==
    /\ pc = "done"
    /\ reqFiles.defined
    /\ AbsentRequired # {}
    /\ response.status = 400
    /\ Listed = AbsentRequired

\* C9 as stated: every request with a required dataset absent is answered
\* with an error listing exactly the absent required datasets
C9_ListsAbsentAlways ==
    /\ RunsOnlyComplete
    /\ (pc = "done" /\ AbsentRequired # {}) =>
          /\ response.status = 400
          /\ ~started
          /\ "missing" \in DOMAIN response
          /\ Listed = AbsentRequired

RECURSIVE AllValuesFinite(_)
\* every coordinate value at any depth of nesting is a finite number
AllValuesFinite(v) ==
    IF v.t = "array"
    THEN \A i \in 1..Len(v.a) : AllValuesFinite(v.a[i])
    ELSE IsFiniteNumber(v)

\* a feature with only finite coordinate values; one without a geometry or
\* without coordinates is counted with the invalid ones
FullyFinite(feat) ==
    /\ feat.geometry # Null
    /\ feat.geometry.coordinates.t = "array"
    /\ AllValuesFinite(feat.geometry.coordinates)

\* C10: the clean step returns exactly the features whose coordinate values
\* are all finite numbers, in their original order, whatever their geometry
\* type
C10_CleanKeepsFiniteFeatures ==
    (started /\ AbsentRequired = {}) =>
        /\ cleaned.popemp = SelectSeq(InputLayer("popemp_file"), FullyFinite)
        /\ cleaned.lehd = SelectSeq(InputLayer("lehd_file"), FullyFinite)
        /\ cleaned.actv = SelectSeq(InputLayer("actv_file"), FullyFinite)

\* C11: running the pipeline again on the same uploaded collections gives
\* every project the same twelve scores, total_score, bcr and rank
C11_SameInputSameResult ==
    response.status = 200 =>
        runAnalysis(FilePaths(reqFiles.files), rng).value = response.body

\* processing a project in analyzeSensitiveFeatures raises an error
TierRaises(feat) == NoStringMethods(OrElse(feat.properties.tier, Str(<<>>)))

\* the rows of an analysis that report the feature's project_id with a value
RowsFor(k, feat, value) ==
    {i \in 1..Len(analysisResults[k].rows) :
        /\ analysisResults[k].rows[i].project_id = feat.properties.project_id
        /\ analysisResults[k].rows[i].value = value}

\* C13: an error while one project is processed inside an analyzer leaves
\* every other project with its metric from that analyzer, and after a failed
\* analyzer call every project is still reported with twelve scores
C13_FailureStaysLocal ==
    /\ (started /\ ~outcome.threw) =>
          \A i \in 1..Len(projects) :
              ~TierRaises(projects[i])
                  => RowsFor(9, projects[i], EnvScore(projects[i])) # {}
    /\ response.status = 200 =>
          /\ Len(Reported) = Len(resultsMap)
          /\ \A i \in 1..Len(Reported) :
                \A c \in 1..Len(CriterionScores) :
                    /\ CriterionScores[c] \in DOMAIN Reported[i]
                    /\ ~IsNaN(Reported[i][CriterionScores[c]])

\* C14: with all ten required datasets present the request is answered with
\* a ranked result, whatever the uploaded collections hold
C14_CompleteInputIsAnswered ==
    (pc = "done" /\ AbsentRequired = {}) => response.status = 200

\* a zone of type Point or Polygon
PointOrPolygon(feat) ==
    feat.geometry # Null /\ feat.geometry.type \in {"Point", "Polygon"}

\* the candidate is to be selected: all its coordinate values are finite
\* numbers and its centroid lies within the buffer
CentroidInside(feat, buffer) ==
    /\ FullyFinite(feat)
    /\ WellFormed(feat.geometry)
    /\ buffer.ok
    /\ RLt(buffer.lo, Centroid(feat.geometry))
    /\ RLt(Centroid(feat.geometry), buffer.hi)

\* the candidates to be selected, in their original order
SelectedInside(buffer, candidates) ==
    LET Inside(feat) == CentroidInside(feat, buffer)
    IN  SelectSeq(candidates, Inside)

\* the zones of the employment layer to be selected for a project
EmploymentInside(proj) ==
    SelectedInside(createBuffer(proj, EquityBufferMiles(proj), "miles"),
                   InputLayer("popemp_file"))

\* C15: getCentroidsWithin returns, in order, exactly the Point and Polygon
\* zones with finite coordinates whose centroid lies within the buffer; one
\* zone with emp17 = 100 and emp50 = 150 inside the buffer gives the raw
\* percent change 50 and the only project the score 5; the freight and the
\* activity raw metrics count the zones with centroid inside the 5-mile and
\* the 2-mile buffer
C15_CentroidsWithin ==
    (started /\ ~outcome.threw) =>
          \A i \in 1..Len(projects) :
              /\ (/\ ~analysisResults[5].threw
                  /\ Len(EmploymentInside(projects[i])) = 1
                  /\ EmploymentInside(projects[i])[1].properties
                         = ZoneProps(Num(R(100)), Num(R(150)))) =>
                    /\ analysisResults[5].rows[i].raw = R(50)
                    /\ Len(projects) = 1 => analysisResults[5].rows[i].value = R(5)
              /\ \A field \in {"popemp_file", "lehd_file", "actv_file"} :
                    getCentroidsWithin(createBuffer(projects[i], R(5), "miles"),
                                       SelectSeq(InputLayer(field), PointOrPolygon))
                        = SelectedInside(createBuffer(projects[i], R(5), "miles"),
                                         SelectSeq(InputLayer(field), PointOrPolygon))
              /\ ~analysisResults[11].threw =>
                    analysisResults[11].rows[i].raw =
                        R(Len(SelectedInside(createBuffer(projects[i], R(5), "miles"),
                                             InputLayer("lehd_file"))))
              /\ ~analysisResults[12].threw =>
                    analysisResults[12].rows[i].raw =
                        R(Len(SelectedInside(createBuffer(projects[i], R(2), "miles"),
                                             InputLayer("actv_file"))))

\* the collections the analyzers of the run in hand were given
RunFiles == [LoadFiles(FilePaths(reqFiles.files)) EXCEPT !.projects = projects]

\* the places of the three Math.random stubs in the list of analyses
Stubs == {7, 8, 10}

\* an order of execution: order[p] is the analysis run at place p
PlaceOf(order, k) == CHOOSE p \in 1..Len(order) : order[p] = k

\* how many stubs run before analysis k in an order
StubsBefore(order, k) ==
    Cardinality({j \in Stubs : PlaceOf(order, j) < PlaceOf(order, k)})

\* the analyzers' outputs when they are executed in an order, r being the
\* state of Math.random before the first of them
AnalysesInOrder(files, r, order) ==
    [Analyses(files, r) EXCEPT
        ![7] = analyzeAccessNonWork(files.projects,
                   r + Len(files.projects) * StubsBefore(order, 7)),
        ![8] = analyzeAccessNonWorkEJ(files.projects,
                   r + Len(files.projects) * StubsBefore(order, 8)),
        ![10] = analyzeJobGrowth(files.projects,
                   r + Len(files.projects) * StubsBefore(order, 10))]

RECURSIVE MergeInOrder(_, _, _, _)
\* the result map after the first p analyses of an order are merged
MergeInOrder(m, results, order, p) ==
    IF p = 0 THEN m
    ELSE LET before == MergeInOrder(m, results, order, p - 1)
         IN  IF before = <<>> \/ results[order[p]].threw THEN before
             ELSE MergeRows(before, results[order[p]].rows, Len(results[order[p]].rows))

\* the final records of a run whose analyzers are executed and merged in an order
RecordsInOrder(r, order) ==
    MergeInOrder(InitResults(projects, Len(projects)),
                 AnalysesInOrder(RunFiles, r, order), order, Len(order))

\* the order of the code, the reverse of it, and the code's order with the
\* two access stubs exchanged
CodeOrder == <<1, 2, 3, 4, 5, 6, 7, 8, 9, 10, 11, 12>>
OtherOrders ==
    {<<12, 11, 10, 9, 8, 7, 6, 5, 4, 3, 2, 1>>, <<1, 2, 3, 4, 5, 6, 8, 7, 9, 10, 11, 12>>}

\* the result map of the run after its first k analyses
MapAfter(k) == RunAnalyses(InitResults(projects, Len(projects)), analysisResults, k)

\* merging analysis k changes at most the field of analysis k
MergeTouchesOwnField(k) ==
    /\ Len(MapAfter(k)) = Len(MapAfter(k - 1))
    /\ \A i \in 1..Len(MapAfter(k)) :
          /\ MapAfter(k)[i].key = MapAfter(k - 1)[i].key
          /\ DOMAIN MapAfter(k)[i].val = DOMAIN MapAfter(k - 1)[i].val
          /\ \A f \in DOMAIN MapAfter(k)[i].val \ {CriterionScores[k]} :
                MapAfter(k)[i].val[f] = MapAfter(k - 1)[i].val[f]

\* C16: merging an analyzer's output changes only that analyzer's field of
\* the matching project, and the final records are the same for every order
\* in which the analyzers are executed and merged
C16_MergeOrderIndependent ==
    (started /\ ~outcome.threw) =>
        /\ \A k \in 1..Len(analysisResults) : MergeTouchesOwnField(k)
        /\ \A r \in 0..(RngPeriod - 1) :
              RecordsInOrder(r, CodeOrder) = resultsMap
                  => \A order \in OtherOrders : RecordsInOrder(r, order) = resultsMap

\* what an invocation produces when it runs alone, from the same state of
\* Math.random
Alone(i) ==
    [value |-> runAnalysis(FilePaths(RequestBody(i)), inv[i].seed).value,
     threw |-> runAnalysis(FilePaths(RequestBody(i)), inv[i].seed).threw]

\* C12: under every interleaving of two invocations each reads only the
\* datasets it uploaded, and its result is the one it produces when run alone
C12_InvocationsIsolated ==
    \A i \in DOMAIN inv :
        inv[i].pc \in {"awaiting", "done"} =>
            /\ inv[i].read = RequestBody(i)
            /\ inv[i].outcome = Alone(i)

====
